---- MODULE Spec2Model ----
(***************************************************************************)
(* Personal Finance Assistant API: the insight engine analyze_finances and *)
(* the keyword router of the /api/chat handler (src/main.py), over the     *)
(* Transaction and Budget documents of src/schemas.py.                     *)
(*                                                                         *)
(* Strings that the code inspects character by character (category labels, *)
(* the chat message) are sequences of one-character strings; strings that  *)
(* the code only builds (tips, reply sentences) are TLA+ strings.          *)
(*                                                                         *)
(* Amounts are Python floats.  They are modelled as integer-valued binary  *)
(* floating-point numbers with a significand of MantBits bits (53 in the   *)
(* program) and round-to-nearest-even addition, so that an accumulation    *)
(* rounds in the model as it does in the program, at a smaller magnitude.  *)
(***************************************************************************)
EXTENDS Integers, Sequences, FiniteSets, TLC

VARIABLES transaction, budget, pc, message, insights, reply_parts, reply

vars == <<transaction, budget, pc, message, insights, reply_parts, reply>>

----------------------------------------------------------------------------
(* Bounds of the model *)

MantBits == 3
MaxTx == 3
MaxBud == 2

----------------------------------------------------------------------------
(* Floating-point arithmetic on integer-valued floats *)

Abs(n) == IF n < 0 THEN -n ELSE n

RECURSIVE Ulp(_, _)
Ulp(m, q) == IF m < (2 ^ MantBits) * q THEN q ELSE Ulp(m, 2 * q)

\* The float nearest to the exact integer n, ties to the even significand.
fl(n) ==
    LET m  == Abs(n)
        q  == Ulp(m, 1)
        lo == (m \div q) * q
        r  == m - lo
        up == IF 2 * r > q \/ (2 * r = q /\ (lo \div q) % 2 = 1)
              THEN lo + q ELSE lo
    IN  IF n < 0 THEN -up ELSE up

FAdd(a, b) == fl(a + b)
FSub(a, b) == fl(a - b)

RECURSIVE SumFrom(_, _)
SumFrom(acc, s) == IF s = <<>> THEN acc ELSE SumFrom(FAdd(acc, Head(s)), Tail(s))

\* The builtin sum(): a left fold of + from 0.
sum(s) == SumFrom(0, s)

min(a, b) == IF b < a THEN b ELSE a

----------------------------------------------------------------------------
(* str.lower() *)

\* The lower-case letter of each capital letter
LowerOf ==
    ("A" :> "a") @@ ("B" :> "b") @@ ("C" :> "c") @@ ("D" :> "d") @@ ("E" :> "e") @@
    ("F" :> "f") @@ ("G" :> "g") @@ ("H" :> "h") @@ ("I" :> "i") @@ ("J" :> "j") @@
    ("K" :> "k") @@ ("L" :> "l") @@ ("M" :> "m") @@ ("N" :> "n") @@ ("O" :> "o") @@
    ("P" :> "p") @@ ("Q" :> "q") @@ ("R" :> "r") @@ ("S" :> "s") @@ ("T" :> "t") @@
    ("U" :> "u") @@ ("V" :> "v") @@ ("W" :> "w") @@ ("X" :> "x") @@ ("Y" :> "y") @@
    ("Z" :> "z")

LowerChar(c) == IF c \in DOMAIN LowerOf THEN LowerOf[c] ELSE c

lower(s) == [i \in 1..Len(s) |-> LowerChar(s[i])]

RECURSIVE StrOf(_)
StrOf(s) == IF s = <<>> THEN "" ELSE Head(s) \o StrOf(Tail(s))

----------------------------------------------------------------------------
(* Number formatting *)

Digit == <<"0", "1", "2", "3", "4", "5", "6", "7", "8", "9">>

RECURSIVE Digits(_)
Digits(n) == IF n < 10 THEN Digit[n + 1]
             ELSE Digits(n \div 10) \o Digit[(n % 10) + 1]

\* f"{x:.2f}" of an integer-valued float
Fmt2(x) == (IF x < 0 THEN "-" ELSE "") \o Digits(Abs(x)) \o ".00"

\* num/den (den > 0, num >= 0) rounded to an integer, ties to even
RoundHalfEven(num, den) ==
    LET q == num \div den
        r == num % den
    IN  IF 2 * r > den \/ (2 * r = den /\ q % 2 = 1) THEN q + 1 ELSE q

\* f"{rate:.0%}" of the rate num/den
FmtPct0(rate) == Digits(RoundHalfEven(100 * rate.num, rate.den)) \o "%"

----------------------------------------------------------------------------
(* analyze_finances *)

Amounts(transactions) == [i \in 1..Len(transactions) |-> transactions[i].amount]

IsPositive(a) == a > 0

total_income(transactions) == sum(SelectSeq(Amounts(transactions), IsPositive))

\* Faulty variant: the sum of the non-positive amounts is not negated
total_expense_unnegated(transactions) ==
    sum([i \in 1..Len(transactions) |-> min(transactions[i].amount, 0)])

total_expense(transactions) ==
    -sum([i \in 1..Len(transactions) |-> min(transactions[i].amount, 0)])

net(income, expense) == FSub(income, expense)

\* by_category.get(cat, 0)
DictGet(d, k) ==
    IF \E i \in 1..Len(d) : d[i].k = k
    THEN (d[CHOOSE i \in 1..Len(d) : d[i].k = k]).v
    ELSE 0

\* by_category[cat] = v: a present key keeps its place, a new key goes last
DictPut(d, k, v) ==
    IF \E i \in 1..Len(d) : d[i].k = k
    THEN [i \in 1..Len(d) |-> IF d[i].k = k THEN [k |-> k, v |-> v] ELSE d[i]]
    ELSE Append(d, [k |-> k, v |-> v])

\* Faulty variant: the amount replaces the category's total instead of adding to it
Accumulate_overwrite(d, t) == DictPut(d, lower(t.category), t.amount)

Accumulate(d, t) ==
    LET cat == lower(t.category)
    IN  DictPut(d, cat, FAdd(DictGet(d, cat), t.amount))

RECURSIVE CategoryFold(_, _)
CategoryFold(d, transactions) ==
    IF transactions = <<>> THEN d
    ELSE CategoryFold(Accumulate(d, Head(transactions)), Tail(transactions))

\* The items of by_category, in insertion order
by_category(transactions) == CategoryFold(<<>>, transactions)

\* Faulty variant: the budget's category is compared as written, not lowercased
spent_exact_case(bycat, b) ==
    LET Match(e) == e.k = b.category /\ e.v < 0
        hits == SelectSeq(bycat, Match)
    IN  -sum([i \in 1..Len(hits) |-> hits[i].v])

spent(bycat, b) ==
    LET key == lower(b.category)
        Match(e) == e.k = key /\ e.v < 0
        hits == SelectSeq(bycat, Match)
    IN  -sum([i \in 1..Len(hits) |-> hits[i].v])

\* Faulty variant: a budget of amount 0 is taken as no budget
IsOver_nonzero_budget(bycat, b) == b.amount > 0 /\ spent(bycat, b) > b.amount

\* Faulty variant: spent equal to the budget amount counts as an overrun
IsOver_or_equal(bycat, b) == spent(bycat, b) >= b.amount

IsOver(bycat, b) == spent(bycat, b) > b.amount

\* Faulty variant: each record is put in front of the earlier ones
RECURSIVE OversFold_prepend(_, _, _)
OversFold_prepend(acc, bycat, budgets) ==
    IF budgets = <<>> THEN acc
    ELSE LET b == Head(budgets)
         IN  OversFold_prepend(
                 IF spent(bycat, b) > b.amount
                 THEN <<[category |-> b.category,
                         spent |-> spent(bycat, b),
                         budget |-> b.amount]>> \o acc
                 ELSE acc,
                 bycat, Tail(budgets))

RECURSIVE OversFold(_, _, _)
OversFold(acc, bycat, budgets) ==
    IF budgets = <<>> THEN acc
    ELSE LET b == Head(budgets)
         IN  OversFold(
                 IF IsOver(bycat, b)
                 THEN Append(acc, [category |-> b.category,
                                   spent |-> spent(bycat, b),
                                   budget |-> b.amount])
                 ELSE acc,
                 bycat, Tail(budgets))

overs(bycat, budgets) == OversFold(<<>>, bycat, budgets)

savings_rate(income, expense) ==
    IF FSub(income, expense) > 0
    THEN [num |-> FSub(income, expense), den |-> income]
    ELSE [num |-> 0, den |-> 1]

SavingsTip(income, expense) ==
    "Your savings rate is " \o FmtPct0(savings_rate(income, expense))
        \o ". Aim for 20%+ where possible."

HasSavingsTip(income, expense) == expense > 0 /\ income > 0

OverTip(o) ==
    "You're over budget in " \o StrOf(o.category) \o " by $"
        \o Fmt2(FSub(o.spent, o.budget))
        \o ". Consider reducing spend or increasing the budget."

\* Faulty variant: a later category of equal magnitude replaces the earlier one
TopStep_or_equal(top, e) ==
    IF e.v < 0 /\ -e.v >= top.max_spend
    THEN [found |-> TRUE, cat |-> e.k, max_spend |-> -e.v]
    ELSE top

TopStep(top, e) ==
    IF e.v < 0 /\ -e.v > top.max_spend
    THEN [found |-> TRUE, cat |-> e.k, max_spend |-> -e.v]
    ELSE top

RECURSIVE TopFold(_, _)
TopFold(top, bycat) ==
    IF bycat = <<>> THEN top ELSE TopFold(TopStep(top, Head(bycat)), Tail(bycat))

\* top_exp_cat (None when found is FALSE) and max_spend after the loop
top_expense(bycat) == TopFold([found |-> FALSE, cat |-> <<>>, max_spend |-> 0], bycat)

\* `if top_exp_cat:`: neither None nor the empty string
Truthy(top) == top.found /\ top.cat # <<>>

TopTip(top) ==
    "Largest expense category is " \o StrOf(top.cat) \o " at $"
        \o Fmt2(top.max_spend) \o ". See if there are ways to trim this."

tips(income, expense, ov, bycat) ==
    LET top == top_expense(bycat)
    IN  (IF HasSavingsTip(income, expense)
         THEN <<SavingsTip(income, expense)>> ELSE <<>>)
        \o [i \in 1..Len(ov) |-> OverTip(ov[i])]
        \o (IF Truthy(top) THEN <<TopTip(top)>> ELSE <<>>)

analyze_finances(transactions, budgets) ==
    LET income  == total_income(transactions)
        expense == total_expense(transactions)
        bycat   == by_category(transactions)
        ov      == overs(bycat, budgets)
    IN  [summary |-> [income  |-> income,
                      expense |-> expense,
                      net     |-> net(income, expense)],
         overs   |-> ov,
         tips    |-> tips(income, expense, ov, bycat)]

----------------------------------------------------------------------------
(* Inputs *)

rent == <<"r", "e", "n", "t">>
RENT == <<"R", "E", "N", "T">>
food == <<"f", "o", "o", "d">>
Food == <<"F", "o", "o", "d">>

TxAmounts == {-8, -1, 1}
TxCategories == {rent, Food}

\* Transaction documents: an expense or an income under a label in lower case
\* or with a capital, an amount of zero, and an expense under the empty label
Transaction ==
    [amount : TxAmounts, category : TxCategories]
        \cup { [amount |-> 0, category |-> Food],
               [amount |-> -1, category |-> <<>>] }

\* Budget documents: labels in another letter case than the transactions'
Budget ==
    { [category |-> RENT, amount |-> 8],
      [category |-> food, amount |-> 0] }

SeqsUpTo(S, n) == UNION {[1..k -> S] : k \in 0..n}

NoInsights == [summary |-> [income |-> 0, expense |-> 0, net |-> 0],
               overs |-> <<>>, tips |-> <<>>]

----------------------------------------------------------------------------
(* The insight engine applied to one input *)

Init ==
    /\ transaction \in SeqsUpTo(Transaction, MaxTx)
    /\ budget \in SeqsUpTo(Budget, MaxBud)
    /\ pc = "call"
    /\ message = <<>>
    /\ insights = NoInsights
    /\ reply_parts = <<>>
    /\ reply = ""

Analyze ==
    /\ pc = "call"
    /\ insights' = analyze_finances(transaction, budget)
    /\ pc' = "done"
    /\ UNCHANGED <<transaction, budget, message, reply_parts, reply>>

Next == Analyze

Spec == Init /\ [][Next]_vars

----------------------------------------------------------------------------
(* The chat handler's keyword router *)

\* `k in user_q`: k occurs in s as a contiguous substring
Contains(s, k) ==
    \E i \in 0..(Len(s) - Len(k)) : SubSeq(s, i + 1, i + Len(k)) = k

any(s, keywords) == \E k \in keywords : Contains(s, k)

SummaryKeywords ==
    { <<"s","u","m","m","a","r","y">>,
      <<"o","v","e","r","v","i","e","w">>,
      <<"h","o","w"," ","a","m"," ","i"," ","d","o","i","n","g">>,
      <<"n","e","t">> }

BudgetKeywords ==
    { <<"b","u","d","g","e","t">>,
      <<"o","v","e","r"," ","b","u","d","g","e","t">>,
      <<"o","v","e","r","s","p","e","n","t">>,
      <<"o","v","e","r","s","p","e","n","d","i","n","g">> }

TipKeywords ==
    { <<"t","i","p">>,
      <<"s","a","v","e">>,
      <<"i","m","p","r","o","v","e">>,
      <<"a","d","v","i","c","e">> }

OverviewSentence(s) ==
    "Here's your overview: Income $" \o Fmt2(s.income) \o ", Expenses $"
        \o Fmt2(s.expense) \o ", Net $" \o Fmt2(s.net) \o "."

OverBudgetSentence(o) ==
    "Over budget in " \o StrOf(o.category) \o ": spent $" \o Fmt2(o.spent)
        \o " vs budget $" \o Fmt2(o.budget) \o "."

WithinBudgets == "You're within all budgets based on current data."

KeepTracking == "Keep tracking your spending to build trends."

DefaultSentence(s) ==
    "I can summarize your finances, track budgets, and give tips. "
        \o "Currently: income $" \o Fmt2(s.income) \o ", expenses $"
        \o Fmt2(s.expense) \o ". Ask 'show budget' or 'give tips'."

SummaryGroup(ins) == <<OverviewSentence(ins.summary)>>

BudgetGroup(ins) ==
    IF ins.overs # <<>>
    THEN [i \in 1..Len(ins.overs) |-> OverBudgetSentence(ins.overs[i])]
    ELSE <<WithinBudgets>>

TipsGroup(ins) == IF ins.tips # <<>> THEN ins.tips ELSE <<KeepTracking>>

SummaryMatch(user_q) == any(user_q, SummaryKeywords)
BudgetMatch(user_q) == any(user_q, BudgetKeywords)
TipMatch(user_q) == any(user_q, TipKeywords)

\* Faulty variant: the tips group is appended before the budget group
ReplyParts_tips_first(msg, ins) ==
    LET user_q == lower(msg)
        p1 == IF SummaryMatch(user_q) THEN SummaryGroup(ins) ELSE <<>>
        p2 == IF TipMatch(user_q) THEN p1 \o TipsGroup(ins) ELSE p1
        p3 == IF BudgetMatch(user_q) THEN p2 \o BudgetGroup(ins) ELSE p2
    IN  IF p3 = <<>> THEN <<DefaultSentence(ins.summary)>> ELSE p3

\* Faulty variant: the default sentence is added after the groups in every reply
ReplyParts_always_default(msg, ins) ==
    LET user_q == lower(msg)
        p1 == IF SummaryMatch(user_q) THEN SummaryGroup(ins) ELSE <<>>
        p2 == IF BudgetMatch(user_q) THEN p1 \o BudgetGroup(ins) ELSE p1
        p3 == IF TipMatch(user_q) THEN p2 \o TipsGroup(ins) ELSE p2
    IN  p3 \o <<DefaultSentence(ins.summary)>>

\* reply_parts when the handler reaches its return statement
ReplyParts(msg, ins) ==
    LET user_q == lower(msg)
        p1 == IF SummaryMatch(user_q) THEN SummaryGroup(ins) ELSE <<>>
        p2 == IF BudgetMatch(user_q) THEN p1 \o BudgetGroup(ins) ELSE p1
        p3 == IF TipMatch(user_q) THEN p2 \o TipsGroup(ins) ELSE p2
    IN  IF p3 = <<>> THEN <<DefaultSentence(ins.summary)>> ELSE p3

RECURSIVE JoinFrom(_, _, _)
JoinFrom(acc, sep, parts) ==
    IF parts = <<>> THEN acc
    ELSE JoinFrom(acc \o sep \o Head(parts), sep, Tail(parts))

\* sep.join(parts)
Join(sep, parts) ==
    IF parts = <<>> THEN "" ELSE JoinFrom(Head(parts), sep, Tail(parts))

\* The transaction documents posted before a chat
ChatTransaction ==
    { [amount |-> -8, category |-> rent],
      [amount |-> -1, category |-> Food],
      [amount |-> 1, category |-> Food] }

\* Message texts: every keyword of the handler, and texts that hold none, a
\* keyword in capitals, or a word a keyword is close to
Fragments ==
    SummaryKeywords \cup BudgetKeywords \cup TipKeywords \cup
    { <<>>,
      <<"h","e","l","l","o">>,
      <<"o","v","e","r","s","p","e","n","d">>,
      <<"N","E","T">>,
      <<"T","i","p","s">> }

Suffixes ==
    { <<>>,
      <<" ","n","e","t">>,
      <<" ","b","u","d","g","e","t">>,
      <<" ","s","a","v","e"," ","b","u","d","g","e","t"," ","n","e","t">> }

Messages == {a \o b : a \in Fragments, b \in Suffixes}

InitChat ==
    /\ transaction = <<>>
    /\ budget = <<>>
    /\ pc = "ready"
    /\ message = <<>>
    /\ insights = NoInsights
    /\ reply_parts = <<>>
    /\ reply = ""

\* POST /api/transactions
add_transaction(tx) ==
    /\ pc = "ready"
    /\ Len(transaction) < MaxTx
    /\ transaction' = Append(transaction, tx)
    /\ UNCHANGED <<budget, pc, message, insights, reply_parts, reply>>

\* POST /api/budgets
add_budget(b) ==
    /\ pc = "ready"
    /\ Len(budget) < MaxBud
    /\ budget' = Append(budget, b)
    /\ UNCHANGED <<transaction, pc, message, insights, reply_parts, reply>>

\* POST /api/chat, with ins the result of analyze_finances on the documents
\* the handler has just read
chat(msg, ins) ==
    /\ pc = "ready"
    /\ message' = msg
    /\ insights' = ins
    /\ reply_parts' = ReplyParts(msg, ins)
    /\ reply' = Join(" ", reply_parts')
    /\ pc' = "replied"
    /\ UNCHANGED <<transaction, budget>>

\* The returned value has gone to the client; the next request is served
send_response ==
    /\ pc = "replied"
    /\ pc' = "ready"
    /\ message' = <<>>
    /\ insights' = NoInsights
    /\ reply_parts' = <<>>
    /\ reply' = ""
    /\ UNCHANGED <<transaction, budget>>

AddTransaction == \E tx \in ChatTransaction : add_transaction(tx)
AddBudget == \E b \in Budget : add_budget(b)
Chat ==
    LET ins == analyze_finances(transaction, budget)
    IN  \E msg \in Messages : chat(msg, ins)

NextChat == AddTransaction \/ AddBudget \/ Chat \/ send_response

SpecChat == InitChat /\ [][NextChat]_vars

----------------------------------------------------------------------------
(* Reference definitions used by the properties below.  They state what a   *)
(* result should be directly from the transaction and budget lists, and use *)
(* none of the definitions of analyze_finances above.                       *)

Done == pc = "done"

RECURSIVE FoldIncome(_, _)
FoldIncome(acc, txs) ==
    IF txs = <<>> THEN acc
    ELSE FoldIncome(IF Head(txs).amount > 0 THEN fl(acc + Head(txs).amount) ELSE acc,
                    Tail(txs))

RECURSIVE FoldExpense(_, _)
FoldExpense(acc, txs) ==
    IF txs = <<>> THEN acc
    ELSE FoldExpense(IF Head(txs).amount <= 0 THEN fl(acc + Abs(Head(txs).amount)) ELSE acc,
                     Tail(txs))

\* The signed total of the transactions whose lowercased category is c,
\* accumulated in list order
RECURSIVE FoldCategory(_, _, _)
FoldCategory(acc, c, txs) ==
    IF txs = <<>> THEN acc
    ELSE FoldCategory(IF lower(Head(txs).category) = c THEN fl(acc + Head(txs).amount) ELSE acc,
                      c, Tail(txs))

CategoryTotal(c, txs) == FoldCategory(0, c, txs)

CategoriesOf(txs) == {lower(txs[i].category) : i \in 1..Len(txs)}

SpentOn(b, txs) ==
    LET t == CategoryTotal(lower(b.category), txs)
    IN  IF lower(b.category) \in CategoriesOf(txs) /\ t < 0 THEN -t ELSE 0

\* The budgets, in list order, whose spent amount is strictly above the amount
RECURSIVE ExpectedOvers(_, _)
ExpectedOvers(buds, txs) ==
    IF buds = <<>> THEN <<>>
    ELSE (IF SpentOn(Head(buds), txs) > Head(buds).amount
          THEN <<[category |-> Head(buds).category,
                  spent |-> SpentOn(Head(buds), txs),
                  budget |-> Head(buds).amount]>>
          ELSE <<>>) \o ExpectedOvers(Tail(buds), txs)

HasRecordFor(ov, b) ==
    \E k \in 1..Len(ov) : ov[k].category = b.category /\ ov[k].budget = b.amount

----------------------------------------------------------------------------
(* C1 *)

\* C1: the summary satisfies net = income - expense, where income is the sum
\* of the strictly positive amounts and expense is the sum of the absolute
\* values of the non-positive amounts.
C1_NetIsIncomeMinusExpense ==
    Done =>
        /\ insights.summary.income = FoldIncome(0, transaction)
        /\ insights.summary.expense = FoldExpense(0, transaction)
        /\ insights.summary.net = fl(insights.summary.income - insights.summary.expense)

C1_Witness ==
    /\ Done
    /\ insights.summary.income > 0
    /\ insights.summary.expense > insights.summary.income

----------------------------------------------------------------------------
(* C2 *)

HasNegativeIn(b, txs) ==
    \E j \in 1..Len(txs) :
        txs[j].amount < 0 /\ lower(txs[j].category) = lower(b.category)

HasPositiveIn(b, txs) ==
    \E j \in 1..Len(txs) :
        txs[j].amount > 0 /\ lower(txs[j].category) = lower(b.category)

\* C2 as claimed: a budget with amount 0 whose category (compared
\* case-insensitively) has at least one negative transaction has a record in
\* overs, whatever other transactions are present.
C2_AsClaimed ==
    Done =>
        \A i \in 1..Len(budget) :
            (budget[i].amount = 0 /\ HasNegativeIn(budget[i], transaction))
                => HasRecordFor(insights.overs, budget[i])

\* C2 amended: a budget with amount 0 has a record in overs when its category
\* (compared case-insensitively) has at least one negative transaction and
\* the signed amounts of that category sum to a negative total; positive
\* amounts in the category that bring the total to zero or above remove it.
C2_ZeroBudgetNegativeTotal ==
    Done =>
        \A i \in 1..Len(budget) :
            budget[i].amount = 0 =>
                ( ( HasNegativeIn(budget[i], transaction)
                    /\ CategoryTotal(lower(budget[i].category), transaction) < 0 )
                  <=> HasRecordFor(insights.overs, budget[i]) )

C2_Witness ==
    /\ Done
    /\ \E i \in 1..Len(budget) :
          /\ budget[i].amount = 0
          /\ HasNegativeIn(budget[i], transaction)
          /\ HasPositiveIn(budget[i], transaction)
          /\ HasRecordFor(insights.overs, budget[i])

----------------------------------------------------------------------------
(* C3 *)

UpperOf ==
    ("a" :> "A") @@ ("b" :> "B") @@ ("c" :> "C") @@ ("d" :> "D") @@ ("e" :> "E") @@
    ("f" :> "F") @@ ("g" :> "G") @@ ("h" :> "H") @@ ("i" :> "I") @@ ("j" :> "J") @@
    ("k" :> "K") @@ ("l" :> "L") @@ ("m" :> "M") @@ ("n" :> "N") @@ ("o" :> "O") @@
    ("p" :> "P") @@ ("q" :> "Q") @@ ("r" :> "R") @@ ("s" :> "S") @@ ("t" :> "T") @@
    ("u" :> "U") @@ ("v" :> "V") @@ ("w" :> "W") @@ ("x" :> "X") @@ ("y" :> "Y") @@
    ("z" :> "Z")

UpperChar(c) == IF c \in DOMAIN UpperOf THEN UpperOf[c] ELSE c

upper(s) == [i \in 1..Len(s) |-> UpperChar(s[i])]

\* The documents with every category label in lower, or in upper, case
LowerCased(docs) == [i \in 1..Len(docs) |-> [docs[i] EXCEPT !.category = lower(@)]]
UpperCased(docs) == [i \in 1..Len(docs) |-> [docs[i] EXCEPT !.category = upper(@)]]

\* The budgets reported, by lowercased category, with their spent and budget
Reported(ov) ==
    [i \in 1..Len(ov) |->
        [category |-> lower(ov[i].category), spent |-> ov[i].spent, budget |-> ov[i].budget]]

\* C3: category matching is case-insensitive.  Inputs that differ only in the
\* letter case of category labels report the same budgets with the same spent
\* and budget values: every input reports what its all-lowercase form and its
\* all-uppercase form report, with the labels of the transactions, of the
\* budgets, or of both changed.
C3_CaseInsensitive ==
    Done =>
        \A txs \in {LowerCased(transaction), UpperCased(transaction)} :
            \A buds \in {LowerCased(budget), UpperCased(budget)} :
                Reported(overs(by_category(txs), buds)) = Reported(insights.overs)

C3_Witness ==
    /\ Done
    /\ \E k \in 1..Len(insights.overs) :
          \E j \in 1..Len(transaction) :
              /\ transaction[j].category # insights.overs[k].category
              /\ lower(transaction[j].category) = lower(insights.overs[k].category)
              /\ transaction[j].category # lower(transaction[j].category)

----------------------------------------------------------------------------
(* C4 *)

\* C4: with no transactions, income, expense and net are 0 and overs and tips
\* are empty, for every list of budgets, budgets of amount 0 included.
C4_EmptyInput ==
    (Done /\ transaction = <<>>) =>
        /\ insights.summary = [income |-> 0, expense |-> 0, net |-> 0]
        /\ insights.overs = <<>>
        /\ insights.tips = <<>>

C4_Witness ==
    /\ Done
    /\ transaction = <<>>
    /\ \E i \in 1..Len(budget) : budget[i].amount = 0

----------------------------------------------------------------------------
(* C7 *)

\* C7: overs holds, in the order of the budgets list, one record
\* {category, spent, budget} for exactly the budgets whose spent amount is
\* strictly above the budget amount, where spent is the magnitude of the
\* summed signed total of the budget's lowercased category when that total is
\* negative and 0 otherwise; so every record has spent > budget and there is
\* at most one record per budget.
C7_OversPerBudget ==
    Done =>
        /\ insights.overs = ExpectedOvers(budget, transaction)
        /\ Len(insights.overs) <= Len(budget)
        /\ \A k \in 1..Len(insights.overs) :
              insights.overs[k].spent > insights.overs[k].budget

C7_Witness ==
    /\ Done
    /\ Len(budget) = 2
    /\ SpentOn(budget[1], transaction) = budget[1].amount
    /\ budget[1].amount > 0
    /\ Len(insights.overs) = 1
    /\ insights.overs[1].category = budget[2].category

----------------------------------------------------------------------------
(* The texts of the tips, and the category the largest-expense tip is to name *)

SavingsText(income, expense) ==
    LET saved == fl(income - expense)
        pct   == IF saved > 0 THEN RoundHalfEven(100 * saved, income) ELSE 0
    IN  "Your savings rate is " \o Digits(pct) \o "%. Aim for 20%+ where possible."

OverBudgetText(o) ==
    "You're over budget in " \o StrOf(o.category) \o " by $"
        \o Fmt2(fl(o.spent - o.budget))
        \o ". Consider reducing spend or increasing the budget."

LargestExpenseText(c, m) ==
    "Largest expense category is " \o StrOf(c) \o " at $" \o Fmt2(m)
        \o ". See if there are ways to trim this."

RECURSIVE SumAbs(_)
SumAbs(txs) == IF txs = <<>> THEN 0 ELSE Abs(Head(txs).amount) + SumAbs(Tail(txs))

\* Every text a largest-expense tip can have: a lowercased label of the
\* transaction documents and a magnitude up to twice the largest exact sum
LargestExpenseTexts ==
    {LargestExpenseText(lower(t.category), m) :
        t \in Transaction,
        m \in 0..(2 * MaxTx * SumAbs(<<CHOOSE u \in Transaction :
                                        \A v \in Transaction : Abs(v.amount) <= Abs(u.amount)>>))}

IsLargestExpenseTip(t) == t \in LargestExpenseTexts

\* The categories whose total is negative with the greatest magnitude
Greatest(txs) ==
    LET cats  == CategoriesOf(txs)
        total == [c \in cats |-> CategoryTotal(c, txs)]
    IN  {c \in cats : total[c] < 0 /\ \A d \in cats : total[d] >= total[c]}

FirstIndex(c, txs) ==
    CHOOSE i \in 1..Len(txs) :
        /\ lower(txs[i].category) = c
        /\ \A j \in 1..(i - 1) : lower(txs[j].category) # c

\* Among them, the one whose first transaction is earliest in the list
EarliestGreatest(txs) ==
    LET g == Greatest(txs)
    IN  CHOOSE c \in g : \A d \in g : FirstIndex(c, txs) <= FirstIndex(d, txs)

----------------------------------------------------------------------------
(* C8 *)

\* C8 as claimed: tips is, in this order, the savings-rate tip exactly when
\* income > 0 and expense > 0 (with the rate max((income - expense)/income, 0)),
\* one over-budget tip per record of overs in the order of overs, and last the
\* largest-expense tip exactly when some category has a negative summed total;
\* there are no other tips.
C8_AsClaimed ==
    Done =>
        LET income  == insights.summary.income
            expense == insights.summary.expense
            ov      == insights.overs
            hasRate == income > 0 /\ expense > 0
            hasTop  == \E c \in CategoriesOf(transaction) :
                           CategoryTotal(c, transaction) < 0
            s       == IF hasRate THEN 1 ELSE 0
        IN  /\ Len(insights.tips) = s + Len(ov) + (IF hasTop THEN 1 ELSE 0)
            /\ hasRate => insights.tips[1] = SavingsText(income, expense)
            /\ \A k \in 1..Len(ov) : insights.tips[s + k] = OverBudgetText(ov[k])
            /\ hasTop => IsLargestExpenseTip(insights.tips[Len(insights.tips)])

\* What holds of the code instead: the largest-expense tip is given exactly
\* when a category of negative total exists and the one it would name is not
\* the empty label.
C8_ExceptEmptyLabel ==
    Done =>
        LET income  == insights.summary.income
            expense == insights.summary.expense
            ov      == insights.overs
            hasRate == income > 0 /\ expense > 0
            hasTop  == Greatest(transaction) # {}
                       /\ EarliestGreatest(transaction) # <<>>
            s       == IF hasRate THEN 1 ELSE 0
        IN  /\ Len(insights.tips) = s + Len(ov) + (IF hasTop THEN 1 ELSE 0)
            /\ hasRate => insights.tips[1] = SavingsText(income, expense)
            /\ \A k \in 1..Len(ov) : insights.tips[s + k] = OverBudgetText(ov[k])
            /\ hasTop => IsLargestExpenseTip(insights.tips[Len(insights.tips)])

----------------------------------------------------------------------------
(* C9 *)

\* C9: a largest-expense tip names the lowercased category whose summed signed
\* total is negative with the greatest magnitude, and that magnitude; among
\* several categories of that same magnitude it names the one whose first
\* transaction is earliest in the list, never a later one.
C9_LargestExpenseNamesFirstGreatest ==
    Done =>
        \A i \in 1..Len(insights.tips) :
            IsLargestExpenseTip(insights.tips[i]) =>
                /\ Greatest(transaction) # {}
                /\ insights.tips[i] =
                       LargestExpenseText(
                           EarliestGreatest(transaction),
                           -CategoryTotal(EarliestGreatest(transaction), transaction))

C9_Witness ==
    /\ Done
    /\ Cardinality(Greatest(transaction)) >= 2
    /\ <<>> \notin CategoriesOf(transaction)
    /\ \E i \in 1..Len(insights.tips) :
          IsLargestExpenseTip(insights.tips[i])

----------------------------------------------------------------------------
(* C10 *)

PermutationsOf(txs) ==
    {[i \in 1..Len(txs) |-> txs[p[i]]] : p \in Permutations(1..Len(txs))}

IsOtherTip(t) == ~IsLargestExpenseTip(t)

\* r is the result on the transactions in another order
SameUpToLargestExpenseTip(r) ==
    /\ r.summary = insights.summary
    /\ r.overs = insights.overs
    /\ SelectSeq(r.tips, IsOtherTip) = SelectSeq(insights.tips, IsOtherTip)
    /\ r.tips # insights.tips => Cardinality(Greatest(transaction)) >= 2

\* C10 as claimed: for every permutation of the transaction list and the same
\* budgets, income, expense and net are equal and overs is the same list; only
\* the largest-expense tip may change, and only when two categories tie for
\* the greatest expense magnitude.
C10_AsClaimed ==
    Done =>
        \A txs \in PermutationsOf(transaction) :
            SameUpToLargestExpenseTip(analyze_finances(txs, budget))

\* No sum of these amounts, in any order, is rounded
AddsExactly(txs) == SumAbs(txs) <= 2 ^ MantBits

\* C10 amended: the same, for transaction lists whose amounts add without
\* floating-point rounding (integer amounts whose absolute values sum to at
\* most 2^MantBits); the sums are accumulated in list order, and where an
\* addition rounds, a permutation can change income, expense, net and overs.
C10_OrderIndependentWhenExact ==
    (Done /\ AddsExactly(transaction)) =>
        \A txs \in PermutationsOf(transaction) :
            SameUpToLargestExpenseTip(analyze_finances(txs, budget))

C10_Witness ==
    /\ Done
    /\ AddsExactly(transaction)
    /\ Len(transaction) >= 2
    /\ <<>> \notin CategoriesOf(transaction)
    /\ insights.overs # <<>>
    /\ \E txs \in PermutationsOf(transaction) :
          /\ txs # transaction
          /\ analyze_finances(txs, budget).tips # insights.tips

----------------------------------------------------------------------------
(* The keyword router: reference definitions *)

Replied == pc = "replied"

\* k occurs in q, character by character, from some position on
OccursAt(q, k, i) ==
    /\ i + Len(k) - 1 <= Len(q)
    /\ \A j \in 1..Len(k) : q[i + j - 1] = k[j]

HasKeyword(q, keywords) ==
    \E k \in keywords : \E i \in 1..Len(q) : OccursAt(q, k, i)

RECURSIVE SpaceJoined(_)
SpaceJoined(parts) ==
    IF parts = <<>> THEN ""
    ELSE IF Len(parts) = 1 THEN parts[1]
    ELSE parts[1] \o " " \o SpaceJoined(Tail(parts))

GroupSentences(ins) ==
    LET all == SummaryGroup(ins) \o BudgetGroup(ins) \o TipsGroup(ins)
    IN  {all[i] : i \in 1..Len(all)}

\* The keyword sets as the specification lists them
ClaimedSummaryKeywords ==
    { <<"s","u","m","m","a","r","y">>,
      <<"o","v","e","r","v","i","e","w">>,
      <<"n","e","t">> }

ClaimedBudgetKeywords ==
    { <<"b","u","d","g","e","t">>,
      <<"o","v","e","r","s","p","e","n","d">> }

ClaimedTipKeywords ==
    { <<"t","i","p">>,
      <<"s","a","v","e">>,
      <<"a","d","v","i","c","e">> }

\* The keyword sets of the amended claims
AmendedSummaryKeywords ==
    ClaimedSummaryKeywords \cup
    { <<"h","o","w"," ","a","m"," ","i"," ","d","o","i","n","g">> }

AmendedBudgetKeywords ==
    { <<"b","u","d","g","e","t">>,
      <<"o","v","e","r"," ","b","u","d","g","e","t">>,
      <<"o","v","e","r","s","p","e","n","t">>,
      <<"o","v","e","r","s","p","e","n","d","i","n","g">> }

AmendedTipKeywords ==
    ClaimedTipKeywords \cup { <<"i","m","p","r","o","v","e">> }

\* The reply holds the sentence group of each keyword set exactly when the
\* lowercased message holds a keyword of that set, the groups in the order
\* summary, budget, tips and joined by single spaces
RoutedBy(summaryKw, budgetKw, tipKw) ==
    LET q  == lower(message)
        m1 == HasKeyword(q, summaryKw)
        m2 == HasKeyword(q, budgetKw)
        m3 == HasKeyword(q, tipKw)
        expected == (IF m1 THEN SummaryGroup(insights) ELSE <<>>)
                    \o (IF m2 THEN BudgetGroup(insights) ELSE <<>>)
                    \o (IF m3 THEN TipsGroup(insights) ELSE <<>>)
    IN  /\ IF m1 \/ m2 \/ m3
           THEN reply_parts = expected
           ELSE \A i \in 1..Len(reply_parts) :
                    reply_parts[i] \notin GroupSentences(insights)
        /\ reply = SpaceJoined(reply_parts)

\* The reply is the default sentence alone exactly when the lowercased message
\* holds no keyword, and it is never empty
DefaultedBy(summaryKw, budgetKw, tipKw) ==
    LET q    == lower(message)
        none == ~HasKeyword(q, summaryKw \cup budgetKw \cup tipKw)
        dflt == DefaultSentence(insights.summary)
    IN  /\ none => (reply_parts = <<dflt>> /\ reply = dflt)
        /\ ~none => (reply # dflt /\ \A i \in 1..Len(reply_parts) : reply_parts[i] # dflt)
        /\ reply # ""

----------------------------------------------------------------------------
(* C5 *)

\* C5 as claimed: with the keyword sets summary/overview/net, budget/overspend
\* and tip/save/advice, the sentence group of a set is in the reply exactly
\* when the lowercased message contains a keyword of the set as a substring;
\* the matching groups are joined by single spaces in the order summary,
\* budget, tips, whatever the order of the keywords in the message.
C5_AsClaimed ==
    Replied => RoutedBy(ClaimedSummaryKeywords, ClaimedBudgetKeywords, ClaimedTipKeywords)

\* C5 amended: the same, with the keyword sets summary/overview/"how am i
\* doing"/net, budget/"over budget"/overspent/overspending and
\* tip/save/improve/advice ("overspend" alone is no keyword).
C5_KeywordRouting ==
    Replied => RoutedBy(AmendedSummaryKeywords, AmendedBudgetKeywords, AmendedTipKeywords)

C5_Witness ==
    /\ Replied
    /\ HasKeyword(lower(message), AmendedBudgetKeywords)
    /\ \E i, j \in 1..Len(message) :
          /\ i < j
          /\ OccursAt(lower(message), <<"t","i","p">>, i)
          /\ OccursAt(lower(message), <<"n","e","t">>, j)
    /\ Len(insights.overs) = 2
    /\ insights.overs[1].category # insights.overs[2].category
    /\ Len(reply_parts) > 3

----------------------------------------------------------------------------
(* C6 *)

\* C6 as claimed: if the lowercased message contains no keyword of the sets
\* summary/overview/net, budget/overspend and tip/save/advice, the reply is
\* exactly the default overview sentence with the computed income and expense;
\* the default sentence is never part of the reply when a keyword set matched;
\* the reply is never empty.
C6_AsClaimed ==
    Replied => DefaultedBy(ClaimedSummaryKeywords, ClaimedBudgetKeywords, ClaimedTipKeywords)

\* C6 amended: the same, with the keyword sets summary/overview/"how am i
\* doing"/net, budget/"over budget"/overspent/overspending and
\* tip/save/improve/advice.
C6_DefaultReply ==
    Replied => DefaultedBy(AmendedSummaryKeywords, AmendedBudgetKeywords, AmendedTipKeywords)

C6_Witness ==
    /\ Replied
    /\ message # <<>>
    /\ ~HasKeyword(lower(message),
                   AmendedSummaryKeywords \cup AmendedBudgetKeywords \cup AmendedTipKeywords)
    /\ insights.summary.expense > 0
    /\ reply = DefaultSentence(insights.summary)

====
